---- MODULE Spec2Model ----
(***************************************************************************)
(* The boss-fight combat subsystem: the turn state machine of              *)
(* scenes/combat.rs `update`, the CombatData it works on (combat.rs) and   *)
(* the scene switch into and out of combat (game_state.rs).                *)
(*                                                                         *)
(* Numbers.  The source computes in f32.  Every quantity that only ever    *)
(* holds whole numbers is kept in units: timer, attack_bar_pos,            *)
(* attack_bar_speed, player_health, player_pos_x.  Every quantity that     *)
(* takes fractional values is kept in TENTHS, as an exact decimal:         *)
(* heart_pos, heart_velocity, sans_shake and the pos, size and velocity of *)
(* a bone (so 4400 is the floor line 440.0 and 9 is the gravity 0.9).      *)
(* fade_alpha, the opacity of a render-only overlay that no combat logic   *)
(* reads, is not part of the model.                                        *)
(***************************************************************************)
EXTENDS Integers, Sequences, FiniteSets, TLC

VARIABLES
  scene,          \* GameState.scene: "Desktop" (any scene outside combat),
                  \* "CombatTransition" or "Combat"
  combat_data,    \* GameState.combat_data, a CombatData
  player_health,  \* GameState.player_health
  player_pos_x,   \* GameState.player_pos.x
  keys_pressed,   \* the keys the input context reported as pressed to the last
                  \* update (is_key_pressed)
  keys_down,      \* the keys the input context reports as held (is_key_down)
  before,         \* history: the game state as the last step found it
  sessions,       \* combat sessions started so far (bounded by MaxSessions)
  turns,          \* enemy turns entered so far (bounded by MaxTurns)
  discord_rpc     \* the DiscordRpc object and what its calls did so far

vars == <<scene, combat_data, player_health, player_pos_x, keys_pressed, keys_down,
          before, sessions, turns, discord_rpc>>

(***************************************************************************)
(* Bounds of the model.                                                    *)
(***************************************************************************)
\* combat sessions (Desktop -> Combat) one run may start
MaxSessions == 2
\* enemy turns one run may enter
MaxTurns == 2
\* update_status calls one run may make
MaxCalls == 4
\* how many of the ten taunt lines the random choice is drawn from
MaxJokes == 1
\* how many of the five Act lines the random choice is drawn from
MaxActs == 1
\* number of updates of an enemy turn, from its start, on which the player
\* changes the keys
InputWindow == 3
\* number of first waves of an enemy turn that draw from the whole pool
MixedWaves == 3

(***************************************************************************)
(* Constants of the program.                                               *)
(***************************************************************************)
MenuLast == 3
BarStart == 50
BarCenter == 400
BarEnd == 750
BarSpeed == 8
FullDamage == 100
InnerDist == 20
OuterDist == 100
ShakeHit == 100
ShakeDecay == 5
MaxHealth == 100
ItemHeal == 40
ExitPlayerX == 700
StartPlayerX == 400
SpawnX == 4000
SpawnY == 3950
InitHeartY == 4000
Gravity == 9
JumpVelocity == -130
FastFall == 15
HeartSpeed == 40
FloorY == 4400
ArenaMinX == 550
ArenaMaxX == 7350
ArenaMinY == 3250
ArenaMaxY == 4550
HeartSize == 100
WaveInterval == 40
SurvivalTime == 400
BoneMinX == -500
BoneMaxX == 8500
GapSize == 600
ArenaTop == 3200
ArenaBottom == 4700
BoneWidth == 200
BoneRightX == 8000
BoneLeftX == -500

InitDialogue == "You feel like you're gonna have a bad time."
ClosingDialogue == "You feel your sins crawling on your back."
ItemText == "You ate the Legendary Hero.\nYou recovered 40 HP!"
MercyText == "You spared Sans."
MissText == "MISS"

\* the pool of scenes/combat.rs `acts`
acts ==
  << "Check: Sans 1 ATK 1 DEF.\nThe easiest enemy. Can only deal 1 damage.",
     "You told a joke about a skeleton.\nSans smiled.",
     "You asked Sans to stop fighting.\nHe didn't respond.",
     "You insulted Sans.\nHe just shrugged.",
     "You looked at Sans.\nHe's still smiling." >>

\* the pool of scenes/combat.rs `jokes` (the same list at both places)
jokes ==
  << "heh heh heh...",
     "you're gonna have a bad time.",
     "it's a beautiful day outside.",
     "birds are singing, flowers are blooming...",
     "on days like these, kids like you...",
     "should be burning in hell.",
     "take it easy, kid.",
     "don't you have anything better to do?",
     "i'm rooting for ya, kid.",
     "geeeeeet dunked on!" >>

Min(a, b) == IF a < b THEN a ELSE b
Max(a, b) == IF a > b THEN a ELSE b
Abs(a) == IF a < 0 THEN -a ELSE a
\* clamp with the upper limit forgotten
ClampBelow(v, lo, hi) == Max(lo, v)
\* f32::clamp
Clamp(v, lo, hi) == Max(lo, Min(v, hi))

\* CombatData::new
NewCombatData ==
  [ turn |-> "Menu",
    menu_selection |-> 0,
    dialogue_text |-> InitDialogue,
    action_text |-> "",
    timer |-> 0,
    sans_shake |-> 0,
    attack_bar_pos |-> 0,
    attack_bar_speed |-> BarSpeed,
    attack_bar_active |-> FALSE,
    heart_pos |-> <<SpawnX, InitHeartY>>,
    heart_velocity |-> <<0, 0>>,
    is_blue_mode |-> FALSE,
    can_jump |-> TRUE,
    bones |-> <<>> ]

\* the game state a step finds, kept in `before` with the handler that runs:
\* "update" for GameState::update, "event" for GameState::event
Snapshot ==
  [ handler |-> "update", scene |-> scene, combat_data |-> combat_data,
    player_health |-> player_health, player_pos_x |-> player_pos_x ]

\* GameState::new, as far as combat reads or writes it; "Desktop" stands for
\* every scene outside combat
\* the DiscordRpc before DiscordRpc::new has run: nothing connected, nothing
\* sent, nothing written
NoDiscordRpc ==
  [phase |-> "unbuilt", connect |-> "none", client |-> "None", start_time |-> 0,
   activity |-> <<>>, calls |-> 0, returned |-> 0, set_failed |-> 0, stderr |-> 0]

Init ==
  /\ discord_rpc = NoDiscordRpc
  /\ scene = "Desktop"
  /\ combat_data = NewCombatData
  /\ player_health = MaxHealth
  /\ player_pos_x = StartPlayerX
  /\ keys_pressed = {}
  /\ keys_down = {}
  /\ before = Snapshot
  /\ sessions = 0
  /\ turns = 0

\* is_key_pressed for any of the confirm keys of Menu, Acting and Mercy
ConfirmZEF(keys) == "Z" \in keys \/ "Enter" \in keys \/ "F" \in keys
\* is_key_pressed for any of the confirm keys of Fighting
\* ConfirmZE taking F as well
ConfirmZEAlsoF(keys) == "Z" \in keys \/ "Enter" \in keys \/ "F" \in keys

ConfirmZE(keys) == "Z" \in keys \/ "Enter" \in keys

\* the decay of sans_shake that ends every update
\* ShakeStep stopping one step short of rest
ShakeStepStopsShort(s) == IF s > ShakeDecay THEN s - ShakeDecay ELSE s

ShakeStep(s) == IF s > 0 THEN s - ShakeDecay ELSE s

\* MenuNavigate with the upper limit of the cursor forgotten
MenuNavigateNoLimit(sel, keys) ==
  LET afterLeft == IF "Left" \in keys /\ sel > 0 THEN sel - 1 ELSE sel
  IN  IF "Right" \in keys THEN afterLeft + 1 ELSE afterLeft

\* MenuNavigate with Right applied before Left
MenuNavigateRightFirst(sel, keys) ==
  LET afterRight == IF "Right" \in keys /\ sel < MenuLast THEN sel + 1 ELSE sel
  IN  IF "Left" \in keys /\ afterRight > 0 THEN afterRight - 1 ELSE afterRight

\* Left, then Right, on the menu cursor
MenuNavigate(sel, keys) ==
  LET afterLeft == IF "Left" \in keys /\ sel > 0 THEN sel - 1 ELSE sel
  IN  IF "Right" \in keys /\ afterLeft < MenuLast THEN afterLeft + 1 ELSE afterLeft

\* MenuConfirm with the timer reset of Fight forgotten
MenuConfirmKeepsTimer(cd, act) ==
  CASE cd.menu_selection = 0 ->
         [cd EXCEPT !.turn = "Fighting", !.attack_bar_active = TRUE,
                    !.attack_bar_pos = BarStart, !.action_text = ""]
    [] cd.menu_selection = 1 ->
         [cd EXCEPT !.turn = "Acting", !.action_text = acts[act]]
    [] cd.menu_selection = 2 ->
         [cd EXCEPT !.turn = "Acting", !.action_text = ItemText]
    [] cd.menu_selection = 3 ->
         [cd EXCEPT !.turn = "Mercy", !.action_text = MercyText]
    [] OTHER -> cd

\* MenuConfirm with Mercy sharing the Acting state, as Item does
MenuConfirmMercyActs(cd, act) ==
  CASE cd.menu_selection = 0 ->
         [cd EXCEPT !.turn = "Fighting", !.timer = 0, !.attack_bar_active = TRUE,
                    !.attack_bar_pos = BarStart, !.action_text = ""]
    [] cd.menu_selection = 1 ->
         [cd EXCEPT !.turn = "Acting", !.action_text = acts[act]]
    [] cd.menu_selection = 2 ->
         [cd EXCEPT !.turn = "Acting", !.action_text = ItemText]
    [] cd.menu_selection = 3 ->
         [cd EXCEPT !.turn = "Acting", !.action_text = MercyText]
    [] OTHER -> cd

\* MenuConfirm with Fight passing the turn to Sans without the attack bar
MenuConfirmFightSkipsBar(cd, act) ==
  CASE cd.menu_selection = 0 ->
         [cd EXCEPT !.turn = "SansTurn", !.timer = 0, !.action_text = ""]
    [] cd.menu_selection = 1 ->
         [cd EXCEPT !.turn = "Acting", !.action_text = acts[act]]
    [] cd.menu_selection = 2 ->
         [cd EXCEPT !.turn = "Acting", !.action_text = ItemText]
    [] cd.menu_selection = 3 ->
         [cd EXCEPT !.turn = "Mercy", !.action_text = MercyText]
    [] OTHER -> cd

\* the four arms of the match on menu_selection
MenuConfirm(cd, act) ==
  CASE cd.menu_selection = 0 ->
         [cd EXCEPT !.turn = "Fighting", !.timer = 0, !.attack_bar_active = TRUE,
                    !.attack_bar_pos = BarStart, !.action_text = ""]
    [] cd.menu_selection = 1 ->
         [cd EXCEPT !.turn = "Acting", !.action_text = acts[act]]
    [] cd.menu_selection = 2 ->
         [cd EXCEPT !.turn = "Acting", !.action_text = ItemText]
    [] cd.menu_selection = 3 ->
         [cd EXCEPT !.turn = "Mercy", !.action_text = MercyText]
    [] OTHER -> cd

\* Heal that gives nothing
HealNothing(h) == h

\* Heal without the limit of 100
HealUnclamped(h) == h + ItemHeal

\* the Item heal
Heal(h) == Min(h + ItemHeal, MaxHealth)

\* one combat update with turn = Menu
\* UpdateMenu with the heal on every confirm, whatever the selection
UpdateMenuHealsOnConfirm(keys, act) ==
  /\ scene = "Combat"
  /\ combat_data.turn = "Menu"
  /\ LET nav == [combat_data EXCEPT
                   !.menu_selection = MenuNavigate(combat_data.menu_selection, keys)]
         cd  == IF ConfirmZEF(keys) THEN MenuConfirm(nav, act) ELSE nav
     IN  /\ combat_data' = [cd EXCEPT !.sans_shake = ShakeStep(cd.sans_shake)]
         /\ player_health' = IF ConfirmZEF(keys)
                             THEN Heal(player_health) ELSE player_health
  /\ keys_pressed' = keys
  /\ before' = Snapshot
  /\ UNCHANGED <<scene, player_pos_x, keys_down, sessions, turns,
                 discord_rpc>>

UpdateMenu(keys, act) ==
  /\ scene = "Combat"
  /\ combat_data.turn = "Menu"
  /\ LET nav == [combat_data EXCEPT
                   !.menu_selection = MenuNavigate(combat_data.menu_selection, keys)]
         cd  == IF ConfirmZEF(keys) THEN MenuConfirm(nav, act) ELSE nav
     IN  /\ combat_data' = [cd EXCEPT !.sans_shake = ShakeStep(cd.sans_shake)]
         /\ player_health' = IF ConfirmZEF(keys) /\ nav.menu_selection = 2
                             THEN Heal(player_health) ELSE player_health
  /\ keys_pressed' = keys
  /\ before' = Snapshot
  /\ UNCHANGED <<scene, player_pos_x, keys_down, sessions, turns,
                 discord_rpc>>

\* AttackDamage without the inner zone of full damage
AttackDamageLinear(pos) ==
  LET dist == Abs(pos - BarCenter)
  IN  IF dist < OuterDist THEN FullDamage - dist ELSE 0

\* the damage of a stopped attack bar: (100.0 - dist) as i32 truncates, and dist
\* is whole because the bar moves from 50 in steps of 8
AttackDamage(pos) ==
  LET dist == Abs(pos - BarCenter)
  IN  IF dist < InnerDist THEN FullDamage
      ELSE IF dist < OuterDist THEN FullDamage - dist
      ELSE 0

\* format!("{} DMG", damage), or "MISS"
DamageText(damage) == IF damage > 0 THEN ToString(damage) \o " DMG" ELSE MissText

\* AutoMiss with the result text forgotten
AutoMissNoText(cd) ==
  [cd EXCEPT !.attack_bar_active = FALSE, !.timer = 0]

\* AutoMiss leaving the bar active
AutoMissStaysActive(cd) ==
  [cd EXCEPT !.action_text = MissText, !.timer = 0]

\* the attack bar past the far bound: miss without input
AutoMiss(cd) ==
  [cd EXCEPT !.attack_bar_active = FALSE, !.action_text = MissText, !.timer = 0]

\* StopBar with the shake of a hit forgotten
StopBarNoShake(cd) ==
  LET damage == AttackDamage(cd.attack_bar_pos)
  IN  [cd EXCEPT !.attack_bar_active = FALSE,
                 !.action_text = DamageText(damage),
                 !.timer = 0]

\* a confirm press stops the attack bar where it is
StopBar(cd) ==
  LET damage == AttackDamage(cd.attack_bar_pos)
  IN  [cd EXCEPT !.attack_bar_active = FALSE,
                 !.action_text = DamageText(damage),
                 !.sans_shake = IF damage > 0 THEN ShakeHit ELSE cd.sans_shake,
                 !.timer = 0]

\* EnterSansTurn with the timer reset forgotten
EnterSansTurnKeepsTimer(cd, joke) ==
  [cd EXCEPT !.turn = "SansTurn", !.dialogue_text = jokes[joke]]

\* the turn passes to Sans with a random taunt
EnterSansTurn(cd, joke) ==
  [cd EXCEPT !.turn = "SansTurn", !.timer = 0, !.dialogue_text = jokes[joke]]

\* FightingArm with the press that stops the bar passing the turn to Sans at
\* once
FightingArmStopEnters(cd, keys, joke) ==
  IF cd.attack_bar_active
  THEN LET moved == [cd EXCEPT !.attack_bar_pos = cd.attack_bar_pos + cd.attack_bar_speed]
       IN  IF moved.attack_bar_pos > BarEnd THEN AutoMiss(moved)
           ELSE IF ConfirmZE(keys) THEN EnterSansTurn(StopBar(moved), joke)
           ELSE moved
  ELSE IF ConfirmZE(keys) THEN EnterSansTurn(cd, joke) ELSE cd

\* FightingArm with a confirm pressed on the update of the auto-miss passing
\* the turn to Sans at once
FightingArmMissEnters(cd, keys, joke) ==
  IF cd.attack_bar_active
  THEN LET moved == [cd EXCEPT !.attack_bar_pos = cd.attack_bar_pos + cd.attack_bar_speed]
       IN  IF moved.attack_bar_pos > BarEnd
             THEN IF ConfirmZE(keys) THEN EnterSansTurn(AutoMiss(moved), joke)
                                     ELSE AutoMiss(moved)
           ELSE IF ConfirmZE(keys) THEN StopBar(moved)
           ELSE moved
  ELSE IF ConfirmZE(keys) THEN EnterSansTurn(cd, joke) ELSE cd

\* the arm CombatTurn::Fighting
FightingArm(cd, keys, joke) ==
  IF cd.attack_bar_active
  THEN LET moved == [cd EXCEPT !.attack_bar_pos = cd.attack_bar_pos + cd.attack_bar_speed]
       IN  IF moved.attack_bar_pos > BarEnd THEN AutoMiss(moved)
           ELSE IF ConfirmZE(keys) THEN StopBar(moved)
           ELSE moved
  ELSE IF ConfirmZE(keys) THEN EnterSansTurn(cd, joke) ELSE cd

\* one combat update with turn = Fighting
UpdateFighting(keys, joke) ==
  /\ scene = "Combat"
  /\ combat_data.turn = "Fighting"
  /\ LET cd == FightingArm(combat_data, keys, joke)
     IN  /\ combat_data' = [cd EXCEPT !.sans_shake = ShakeStep(cd.sans_shake)]
         /\ turns' = IF cd.turn = "SansTurn" THEN turns + 1 ELSE turns
  /\ keys_pressed' = keys
  /\ before' = Snapshot
  /\ UNCHANGED <<scene, player_health, player_pos_x, keys_down, sessions,
                 discord_rpc>>

\* one combat update with turn = Acting or turn = Mercy
UpdateActingMercy(keys, joke) ==
  /\ scene = "Combat"
  /\ combat_data.turn \in {"Acting", "Mercy"}
  /\ IF ConfirmZEF(keys)
     THEN IF combat_data.turn = "Mercy"
          THEN /\ scene' = "Desktop"
               /\ player_pos_x' = ExitPlayerX
               /\ combat_data' = [combat_data EXCEPT
                                    !.sans_shake = ShakeStep(combat_data.sans_shake)]
               /\ turns' = turns
          ELSE /\ LET cd == EnterSansTurn(combat_data, joke)
                  IN  combat_data' = [cd EXCEPT !.sans_shake = ShakeStep(cd.sans_shake)]
               /\ turns' = turns + 1
               /\ UNCHANGED <<scene, player_pos_x>>
     ELSE /\ combat_data' = [combat_data EXCEPT
                               !.sans_shake = ShakeStep(combat_data.sans_shake)]
          /\ UNCHANGED <<scene, player_pos_x, turns>>
  /\ keys_pressed' = keys
  /\ before' = Snapshot
  /\ UNCHANGED <<player_health, keys_down, sessions,
                 discord_rpc>>

\* a Bone
Bone(x, y, w, h, vx) == [pos |-> <<x, y>>, size |-> <<w, h>>, velocity |-> <<vx, 0>>]

\* SansEntry with the heart left where the last turn put it
SansEntryKeepsHeart(cd, blue) ==
  IF cd.timer = 0
  THEN [cd EXCEPT !.bones = <<>>, !.is_blue_mode = blue]
  ELSE cd

\* the first update of an enemy turn (timer == 0.0): heart to the spawn point,
\* bones cleared, attack mode drawn
SansEntry(cd, blue) ==
  IF cd.timer = 0
  THEN [cd EXCEPT !.heart_pos = <<SpawnX, SpawnY>>,
                  !.heart_velocity = <<0, 0>>,
                  !.bones = <<>>,
                  !.is_blue_mode = blue]
  ELSE cd

\* gravity, jump, fast fall, horizontal movement, velocity, floor and clamp
\* HeartPhysics with a floor that gives way by one step of gravity
HeartPhysicsSoftFloor(cd, pressed, down) ==
  LET vy1  == cd.heart_velocity[2] + Gravity
      jump == "Up" \in pressed /\ cd.can_jump
      vy2  == IF jump THEN JumpVelocity ELSE vy1
      cj2  == IF jump THEN FALSE ELSE cd.can_jump
      vy3  == IF "Down" \in down /\ ~cj2 THEN vy2 + FastFall ELSE vy2
      x1   == IF "Left" \in down THEN cd.heart_pos[1] - HeartSpeed ELSE cd.heart_pos[1]
      x2   == IF "Right" \in down THEN x1 + HeartSpeed ELSE x1
      x3   == x2 + cd.heart_velocity[1]
      y3   == cd.heart_pos[2] + vy3
      land == y3 > FloorY + Gravity
  IN  [cd EXCEPT !.heart_pos = <<Clamp(x3, ArenaMinX, ArenaMaxX),
                                 Clamp(IF land THEN FloorY ELSE y3, ArenaMinY, ArenaMaxY)>>,
                 !.heart_velocity = <<cd.heart_velocity[1], IF land THEN 0 ELSE vy3>>,
                 !.can_jump = IF land THEN TRUE ELSE cj2]

HeartPhysics(cd, pressed, down) ==
  LET vy1  == cd.heart_velocity[2] + Gravity
      jump == "Up" \in pressed /\ cd.can_jump
      vy2  == IF jump THEN JumpVelocity ELSE vy1
      cj2  == IF jump THEN FALSE ELSE cd.can_jump
      vy3  == IF "Down" \in down /\ ~cj2 THEN vy2 + FastFall ELSE vy2
      x1   == IF "Left" \in down THEN cd.heart_pos[1] - HeartSpeed ELSE cd.heart_pos[1]
      x2   == IF "Right" \in down THEN x1 + HeartSpeed ELSE x1
      x3   == x2 + cd.heart_velocity[1]
      y3   == cd.heart_pos[2] + vy3
      land == y3 > FloorY
      y4   == IF land THEN FloorY ELSE y3
  IN  [cd EXCEPT !.heart_pos = <<Clamp(x3, ArenaMinX, ArenaMaxX),
                                 Clamp(y4, ArenaMinY, ArenaMaxY)>>,
                 !.heart_velocity = <<cd.heart_velocity[1], IF land THEN 0 ELSE vy3>>,
                 !.can_jump = IF land THEN TRUE ELSE cj2]

\* BlueWave with both bones of the two-sided pattern coming from the right
BlueWaveSameSide(pattern) ==
  CASE pattern = 0 -> << Bone(BoneRightX, 4200, BoneWidth, 500, -60) >>
    [] pattern = 1 -> << Bone(BoneLeftX, 3500, BoneWidth, 600, 60) >>
    [] pattern = 2 -> << Bone(BoneRightX, 4400, BoneWidth, 300, -50),
                         Bone(BoneRightX, 4400, BoneWidth, 300, -50) >>
    [] OTHER -> <<>>

\* BlueWave with the high bone of pattern 1 reaching down to the floor line
BlueWaveHighToFloor(pattern) ==
  CASE pattern = 0 -> << Bone(BoneRightX, 4200, BoneWidth, 500, -60) >>
    [] pattern = 1 -> << Bone(BoneLeftX, 3500, BoneWidth, 1000, 60) >>
    [] pattern = 2 -> << Bone(BoneRightX, 4400, BoneWidth, 300, -50),
                         Bone(BoneLeftX, 4400, BoneWidth, 300, 50) >>
    [] OTHER -> <<>>

\* the bones of one blue-mode wave
BlueWave(pattern) ==
  CASE pattern = 0 -> << Bone(BoneRightX, 4200, BoneWidth, 500, -60) >>
    [] pattern = 1 -> << Bone(BoneLeftX, 3500, BoneWidth, 600, 60) >>
    [] pattern = 2 -> << Bone(BoneRightX, 4400, BoneWidth, 300, -50),
                         Bone(BoneLeftX, 4400, BoneWidth, 300, 50) >>
    [] OTHER -> <<>>

\* RedWave with the lower part starting where the gap starts
RedWaveNoGap(gap_y) ==
  << Bone(BoneRightX, ArenaTop, BoneWidth, gap_y - ArenaTop, -50),
     Bone(BoneRightX, gap_y, BoneWidth, ArenaBottom - gap_y, -50) >>

\* the bones of one red-mode wave: a top and a bottom part around the gap
RedWave(gap_y) ==
  << Bone(BoneRightX, ArenaTop, BoneWidth, gap_y - ArenaTop, -50),
     Bone(BoneRightX, gap_y + GapSize, BoneWidth, ArenaBottom - (gap_y + GapSize), -50) >>

\* WaveDue tested on the timer before its increment
WaveDueEarly(timer) == (timer - 1) % WaveInterval = 0

\* timer % 40.0 == 0.0
WaveDue(timer) == timer % WaveInterval = 0

\* SpawnBones with the mode changed for the wave after
SpawnBonesFlipsMode(cd, pattern, gap_y) ==
  IF WaveDue(cd.timer)
  THEN [cd EXCEPT !.bones = cd.bones \o (IF cd.is_blue_mode THEN BlueWave(pattern)
                                         ELSE RedWave(gap_y)),
                  !.is_blue_mode = ~cd.is_blue_mode]
  ELSE cd

\* the wave spawned on this update, if one is due
SpawnBones(cd, pattern, gap_y) ==
  IF WaveDue(cd.timer)
  THEN [cd EXCEPT !.bones = cd.bones \o (IF cd.is_blue_mode THEN BlueWave(pattern)
                                         ELSE RedWave(gap_y))]
  ELSE cd

\* tetra's Rectangle::intersects, on (x, y, width, height)
Intersects(ax, ay, aw, ah, bx, by, bw, bh) ==
  /\ ax < bx + bw
  /\ ax + aw > bx
  /\ ay < by + bh
  /\ ay + ah > by

\* bones[i].pos += velocity
MoveBone(b) == [b EXCEPT !.pos = <<b.pos[1] + b.velocity[1], b.pos[2] + b.velocity[2]>>]

\* BoneInBounds with the left limit forgotten
BoneInBoundsRight(b) == ~(b.pos[1] > BoneMaxX)

\* BoneInBounds with no limit at all: no bone is ever removed
BoneInBoundsAlways(b) == b.pos[1] = b.pos[1]

\* a bone that stays in the list after its move
BoneInBounds(b) == ~(b.pos[1] < BoneMinX \/ b.pos[1] > BoneMaxX)

\* the moved bone overlaps the 10x10 heart rectangle
BoneHits(heart_pos, b) ==
  Intersects(heart_pos[1], heart_pos[2], HeartSize, HeartSize,
             b.pos[1], b.pos[2], b.size[1], b.size[2])

\* the while loop over the bones: every bone moved
MovedBones(bones) == [i \in 1..Len(bones) |-> MoveBone(bones[i])]

\* Hit with the overlap tested before the bone is moved
HitUnmoved(cd) == \E i \in 1..Len(cd.bones) : BoneHits(cd.heart_pos, cd.bones[i])

\* the while loop over the bones: hit is set if any moved bone overlaps the heart
Hit(cd) == \E i \in 1..Len(cd.bones) : BoneHits(cd.heart_pos, MoveBone(cd.bones[i]))

\* the while loop over the bones: those out of bounds removed, order kept
UpdateBones(cd) == [cd EXCEPT !.bones = SelectSeq(MovedBones(cd.bones), BoneInBounds)]

\* Damage with the floor forgotten
DamageNoFloor(h, hit) == IF hit THEN h - 1 ELSE h

\* player_health after the update: one point off on a hit, floored at 0
Damage(h, hit) ==
  LET h1 == IF hit THEN h - 1 ELSE h
  IN  IF h1 <= 0 THEN 0 ELSE h1

\* SurvivalOver one update early
SurvivalOverEarly(timer) == timer >= SurvivalTime

\* timer > 400.0
SurvivalOver(timer) == timer > SurvivalTime

\* SurvivalEnd with the bones left in the list
SurvivalEndKeepsBones(cd) ==
  IF SurvivalOver(cd.timer)
  THEN [cd EXCEPT !.turn = "Menu", !.dialogue_text = ClosingDialogue,
                  !.is_blue_mode = FALSE]
  ELSE cd

\* SurvivalEnd with the menu cursor put back on Fight
SurvivalEndResetsSelection(cd) ==
  IF SurvivalOver(cd.timer)
  THEN [cd EXCEPT !.turn = "Menu", !.dialogue_text = ClosingDialogue,
                  !.bones = <<>>, !.is_blue_mode = FALSE, !.menu_selection = 0]
  ELSE cd

\* the survived turn goes back to Menu
SurvivalEnd(cd) ==
  IF SurvivalOver(cd.timer)
  THEN [cd EXCEPT !.turn = "Menu", !.dialogue_text = ClosingDialogue,
                  !.bones = <<>>, !.is_blue_mode = FALSE]
  ELSE cd

\* the arm CombatTurn::SansTurn up to the bone loop
SansBeforeBones(cd, pressed, down, blue, pattern, gap_y) ==
  LET entered == SansEntry(cd, blue)
      ticked  == [entered EXCEPT !.timer = entered.timer + 1]
  IN  SpawnBones(HeartPhysics(ticked, pressed, down), pattern, gap_y)

\* one combat update with turn = SansTurn
UpdateSansTurn(pressed, down, blue, pattern, gap_y) ==
  /\ scene = "Combat"
  /\ combat_data.turn = "SansTurn"
  /\ LET spawned == SansBeforeBones(combat_data, pressed, down, blue, pattern, gap_y)
         cd      == SurvivalEnd(UpdateBones(spawned))
     IN  /\ combat_data' = [cd EXCEPT !.sans_shake = ShakeStep(cd.sans_shake)]
         /\ player_health' = Damage(player_health, Hit(spawned))
  /\ keys_pressed' = pressed
  /\ keys_down' = down
  /\ before' = Snapshot
  /\ UNCHANGED <<scene, player_pos_x, sessions, turns,
                 discord_rpc>>

\* the walking scene starts the fade into combat (bounded by MaxSessions)
StartCombat ==
  /\ scene = "Desktop"
  /\ sessions < MaxSessions
  /\ scene' = "CombatTransition"
  /\ sessions' = sessions + 1
  /\ before' = Snapshot
  /\ UNCHANGED <<combat_data, player_health, player_pos_x, keys_pressed, keys_down, turns,
                 discord_rpc>>

\* CombatTransitionUpdate with the combat data of the last session kept
CombatTransitionUpdateKeepsData(done) ==
  /\ scene = "CombatTransition"
  /\ scene' = IF done THEN "Combat" ELSE scene
  /\ before' = Snapshot
  /\ UNCHANGED <<combat_data, player_health, player_pos_x, keys_pressed, keys_down,
                 sessions, turns,
                 discord_rpc>>

\* GameState::update in Scene::CombatTransition: the frames of the fade leave
\* everything modelled as it is, the frame that completes it (done) enters
\* combat with fresh combat data
CombatTransitionUpdate(done) ==
  /\ scene = "CombatTransition"
  /\ IF done
     THEN /\ scene' = "Combat"
          /\ combat_data' = NewCombatData
     ELSE UNCHANGED <<scene, combat_data>>
  /\ before' = Snapshot
  /\ UNCHANGED <<player_health, player_pos_x, keys_pressed, keys_down, sessions, turns,
                 discord_rpc>>

\* GameState::update in Scene::TransitionToDesktop: the frames of the fade
\* leave everything modelled as it is, the frame that completes it (done)
\* enters the walking scene
TransitionToDesktopUpdate(done) ==
  /\ scene = "TransitionToDesktop"
  /\ scene' = IF done THEN "Desktop" ELSE scene
  /\ before' = Snapshot
  /\ UNCHANGED <<combat_data, player_health, player_pos_x, keys_pressed, keys_down,
                 sessions, turns,
                 discord_rpc>>

\* the shell command startx is entered: GameState::event, KeyPressed Enter in
\* Scene::Menu (the shell; "Shell" here, as Menu names the combat menu)
StartX(key, startx) == key = "Enter" /\ scene = "Shell" /\ startx

\* Event with Escape leaving Combat for the shell, as it leaves the walking
\* scene
EventEscapeLeavesCombat(key, startx) ==
  /\ scene \in {"Desktop", "Shell", "Combat", "CombatTransition"}
  /\ scene' = CASE key = "Escape" /\ scene \in {"Desktop", "Combat"} -> "Shell"
                [] key = "Escape" /\ scene = "Shell" -> "Desktop"
                [] StartX(key, startx) -> "TransitionToDesktop"
                [] OTHER -> scene
  /\ player_health' = IF StartX(key, startx) THEN MaxHealth ELSE player_health
  /\ player_pos_x' = IF StartX(key, startx) THEN StartPlayerX ELSE player_pos_x
  /\ before' = [Snapshot EXCEPT !.handler = "event"]
  /\ UNCHANGED <<combat_data, keys_pressed, keys_down, sessions, turns,
                 discord_rpc>>

\* GameState::event for KeyPressed Escape and KeyPressed Enter.  Escape leaves
\* the walking scene for the shell and the shell for the walking scene
\* (session_started holds once the walking scene was reached); Enter in the
\* shell runs the command typed, of which startx resets the player; every
\* other scene, Combat and CombatTransition among them, falls to `_ => {}`.
Event(key, startx) ==
  /\ scene \in {"Desktop", "Shell", "Combat", "CombatTransition"}
  /\ scene' = CASE key = "Escape" /\ scene = "Desktop" -> "Shell"
                [] key = "Escape" /\ scene = "Shell" -> "Desktop"
                [] StartX(key, startx) -> "TransitionToDesktop"
                [] OTHER -> scene
  /\ player_health' = IF StartX(key, startx) THEN MaxHealth ELSE player_health
  /\ player_pos_x' = IF StartX(key, startx) THEN StartPlayerX ELSE player_pos_x
  /\ before' = [Snapshot EXCEPT !.handler = "event"]
  /\ UNCHANGED <<combat_data, keys_pressed, keys_down, sessions, turns,
                 discord_rpc>>

(***************************************************************************)
(* The inputs of an update: the set of keys pressed since the last update  *)
(* (is_key_pressed), the set of keys held (is_key_down), and the draws of  *)
(* the random generator.                                                   *)
(***************************************************************************)
\* pressed keys an update in Menu reads
MenuInputs == { nav \cup conf : nav \in SUBSET {"Left", "Right"},
                                conf \in {{}, {"Z"}, {"Enter"}, {"F"}} }
\* pressed keys an update in Fighting, Acting or Mercy reads
ConfirmInputs == {{}, {"Z"}, {"Enter"}, {"F"}}
\* held keys an update in SansTurn reads
HeldInputs == SUBSET {"Left", "Right", "Down"}
\* rng.gen_range(0..3)
Patterns == 0..2
\* rng.gen_range(330.0..440.0), in tenths: the ends of the range and a middle value
GapYs == {3300, 3850, 4399}

\* the pattern and the gap that produced the newest bone of the list
LastPattern(cd) ==
  LET y == cd.bones[Len(cd.bones)].pos[2]
  IN  IF y = 4200 THEN 0 ELSE IF y = 3500 THEN 1 ELSE 2
LastGapY(cd) == cd.bones[Len(cd.bones)].pos[2] - GapSize

\* the random draws an update in SansTurn makes: the mode on the first update,
\* a pattern or a gap when a wave is due.  Only the first MixedWaves waves of
\* a turn draw from the whole pool, the later ones repeat the wave before.
ModeDraws(cd) == IF cd.timer = 0 THEN BOOLEAN ELSE {cd.is_blue_mode}
PatternDraws(cd, pool) ==
  IF ~WaveDue(cd.timer + 1) \/ ~cd.is_blue_mode THEN {0}
  ELSE IF cd.timer + 1 <= MixedWaves * WaveInterval \/ cd.bones = <<>> THEN pool
  ELSE {LastPattern(cd)}
GapDraws(cd, pool) ==
  IF ~WaveDue(cd.timer + 1) \/ cd.is_blue_mode THEN {3850}
  ELSE IF cd.timer + 1 <= MixedWaves * WaveInterval \/ cd.bones = <<>> THEN pool
  ELSE {LastGapY(cd)}

\* the update would move the turn to SansTurn
EntersSansTurn(keys) ==
  \/ combat_data.turn = "Fighting" /\ ~combat_data.attack_bar_active /\ ConfirmZE(keys)
  \/ combat_data.turn = "Acting" /\ ConfirmZEF(keys)

\* the update would stop the attack bar on a confirm press
StopsBar(keys) ==
  /\ combat_data.turn = "Fighting" /\ combat_data.attack_bar_active /\ ConfirmZE(keys)
  /\ combat_data.attack_bar_pos + combat_data.attack_bar_speed <= BarEnd

CombatTransition == \E done \in BOOLEAN : CombatTransitionUpdate(done)

(***************************************************************************)
(* Spec: the whole loop Desktop -> Combat -> Desktop.  Its player stops    *)
(* the attack bar only at the positions BarStops and leaves the heart      *)
(* alone during the enemy turn; every wave is the two-sided pattern (blue) *)
(* or has the middle gap (red).                                            *)
(***************************************************************************)
\* both ends of the bar and one position in each band of the damage function
BarStops == {58, 306, 402, 498, 746}

Menu == \E keys \in MenuInputs, act \in 1..MaxActs : UpdateMenu(keys, act)

Fighting ==
  \E keys \in ConfirmInputs, joke \in 1..MaxJokes :
    /\ StopsBar(keys) =>
         combat_data.attack_bar_pos + combat_data.attack_bar_speed \in BarStops
    /\ EntersSansTurn(keys) => turns < MaxTurns
    /\ UpdateFighting(keys, joke)

ActingMercy ==
  \E keys \in ConfirmInputs, joke \in 1..MaxJokes :
    /\ EntersSansTurn(keys) => turns < MaxTurns
    /\ UpdateActingMercy(keys, joke)

SansTurn ==
  \E blue \in ModeDraws(combat_data),
     pattern \in PatternDraws(combat_data, {2}),
     gap_y \in GapDraws(combat_data, {3850}) :
    UpdateSansTurn({}, keys_down, blue, pattern, gap_y)

Next ==
  \/ StartCombat
  \/ CombatTransition
  \/ Menu
  \/ Fighting
  \/ ActingMercy
  \/ SansTurn

Spec == Init /\ [][Next]_vars

(***************************************************************************)
(* SpecBar: the attack bar.  Its player may stop the bar on any update;    *)
(* the run ends where the turn passes to Sans.                             *)
(***************************************************************************)
BarFighting ==
  \E keys \in ConfirmInputs, joke \in 1..MaxJokes :
    /\ EntersSansTurn(keys) => turns < MaxTurns
    /\ UpdateFighting(keys, joke)

NextBar ==
  \/ StartCombat
  \/ CombatTransition
  \/ Menu
  \/ BarFighting
  \/ ActingMercy

SpecBar == Init /\ [][NextBar]_vars

(***************************************************************************)
(* SpecHeart: the heart.  Its player chooses Act, and in the one enemy     *)
(* turn of the run changes the held keys during the first InputWindow      *)
(* updates and holds them from then on; Up is pressed only during the      *)
(* first InputWindow updates of the turn or of its first wave.             *)
(***************************************************************************)
ActMenu == \E keys \in {{}, {"Right", "Z"}} : UpdateMenu(keys, 1)

ActConfirm ==
  \E keys \in ConfirmInputs :
    /\ EntersSansTurn(keys) => turns = 0
    /\ UpdateActingMercy(keys, 1)

JumpFrame(timer) ==
  \/ timer < InputWindow
  \/ timer >= WaveInterval /\ timer < WaveInterval + InputWindow

HeartSansTurn ==
  \E pressed \in SUBSET {"Up"}, down \in HeldInputs,
     blue \in ModeDraws(combat_data),
     pattern \in PatternDraws(combat_data, {2}),
     gap_y \in GapDraws(combat_data, {3850}) :
    /\ combat_data.timer >= InputWindow => down = keys_down
    /\ ~JumpFrame(combat_data.timer) => pressed = {}
    /\ UpdateSansTurn(pressed, down, blue, pattern, gap_y)

NextHeart ==
  \/ StartCombat
  \/ CombatTransition
  \/ ActMenu
  \/ ActConfirm
  \/ HeartSansTurn

SpecHeart == Init /\ [][NextHeart]_vars

(***************************************************************************)
(* SpecBones: the bones.  Its player chooses Act and leaves the heart      *)
(* alone in the one enemy turn of the run; the waves draw from all         *)
(* patterns and from the gaps GapYs.                                       *)
(***************************************************************************)
BonesSansTurn ==
  \E blue \in ModeDraws(combat_data),
     pattern \in PatternDraws(combat_data, Patterns),
     gap_y \in GapDraws(combat_data, GapYs) :
    UpdateSansTurn({}, keys_down, blue, pattern, gap_y)

NextBones ==
  \/ StartCombat
  \/ CombatTransition
  \/ ActMenu
  \/ ActConfirm
  \/ BonesSansTurn

SpecBones == Init /\ [][NextBones]_vars

(***************************************************************************)
(* SpecHits: health.  Its player moves the cursor to the right only and,   *)
(* having chosen Fight, lets the attack bar run out.  In an                *)
(* enemy turn the player holds Left or nothing during the first            *)
(* InputWindow updates and nothing from then on, which leaves the heart on *)
(* the floor at or left of the spawn column, where the two bones of a      *)
(* two-sided wave cross.  Between the updates the host delivers Escape and *)
(* Enter events (in an enemy turn during its first InputWindow updates),   *)
(* and in the shell the player may enter startx.                           *)
(***************************************************************************)
HitsMenu == \E keys \in {{}, {"Z"}, {"Right"}, {"Right", "Z"}} : UpdateMenu(keys, 1)

HitsFighting ==
  \E keys \in {{}, {"Z"}} :
    /\ combat_data.attack_bar_active => keys = {}
    /\ EntersSansTurn(keys) => turns < MaxTurns
    /\ UpdateFighting(keys, 1)

HitsSansTurn ==
  \E down \in {{}, {"Left"}},
     blue \in ModeDraws(combat_data),
     pattern \in PatternDraws(combat_data, {2}),
     gap_y \in GapDraws(combat_data, {3850}) :
    /\ (combat_data.timer > 0 /\ combat_data.timer < InputWindow) => down = keys_down
    /\ combat_data.timer >= InputWindow => down = {}
    /\ UpdateSansTurn({}, down, blue, pattern, gap_y)

KeyEvent ==
  \E key \in {"Escape", "Enter"}, startx \in BOOLEAN :
    /\ (scene = "Combat" /\ combat_data.turn = "SansTurn")
         => combat_data.timer <= InputWindow
    /\ Event(key, startx)

TransitionToDesktop == \E done \in BOOLEAN : TransitionToDesktopUpdate(done)

NextHits ==
  \/ StartCombat
  \/ CombatTransition
  \/ HitsMenu
  \/ HitsFighting
  \/ ActingMercy
  \/ HitsSansTurn
  \/ KeyEvent
  \/ TransitionToDesktop

SpecHits == Init /\ [][NextHits]_vars

(***************************************************************************)
(* The player who meets the enemy more than once: Act and the joke, then   *)
(* enemy turns in which Up is pressed only in the first updates of the     *)
(* turn and of the second wave, and Down is held or not, chosen in the     *)
(* first updates and kept for the rest of the turn.  The heart stays where *)
(* the turn before left it until the next turn resets it.                  *)
(***************************************************************************)
FloorConfirm ==
  \E keys \in {{}, {"Z"}} :
    /\ EntersSansTurn(keys) => turns < MaxTurns
    /\ UpdateActingMercy(keys, 1)

FloorSansTurn ==
  \E pressed \in SUBSET {"Up"}, down \in {{}, {"Down"}},
     blue \in ModeDraws(combat_data),
     pattern \in PatternDraws(combat_data, {2}),
     gap_y \in GapDraws(combat_data, {3850}) :
    /\ combat_data.timer >= InputWindow => down = keys_down
    /\ ~JumpFrame(combat_data.timer) => pressed = {}
    /\ UpdateSansTurn(pressed, down, blue, pattern, gap_y)

NextFloor ==
  \/ StartCombat
  \/ CombatTransition
  \/ ActMenu
  \/ FloorConfirm
  \/ FloorSansTurn

SpecFloor == Init /\ [][NextFloor]_vars

(***************************************************************************)
(* The player who never jumps and meets only high bones from the left:     *)
(* every blue wave is pattern 1; Left and Right are held or not, chosen in *)
(* the first updates of the turn and of the second wave and kept between.  *)
(***************************************************************************)
DuckSansTurn ==
  \E down \in SUBSET {"Left", "Right"},
     blue \in ModeDraws(combat_data),
     pattern \in PatternDraws(combat_data, {1}),
     gap_y \in GapDraws(combat_data, {3850}) :
    /\ ~JumpFrame(combat_data.timer) => down = keys_down
    /\ UpdateSansTurn({}, down, blue, pattern, gap_y)

NextDuck ==
  \/ StartCombat
  \/ CombatTransition
  \/ ActMenu
  \/ ActConfirm
  \/ DuckSansTurn

SpecDuck == Init /\ [][NextDuck]_vars

(***************************************************************************)
(* The Discord rich presence.  connect() and set_activity() are calls into *)
(* the IPC library that succeed or fail as the Discord client on the other *)
(* end decides; the clock is the system clock, in seconds since the epoch. *)
(***************************************************************************)
\* SystemTime::now() in seconds relative to UNIX_EPOCH; before the epoch
\* duration_since returns Err
Clocks == {-1, 0, 1700000000}
\* the details and state texts a caller passes
DetailsPool == {"Desktop", "Combat"}
StatePool == {"Exploring", "Fighting Sans", "In the menu"}

\* DiscordRpcNew with a failed connection taking the program down
DiscordRpcNewPanicsOnError(now, connected) ==
  IF now < 0 \/ ~connected
  THEN [NoDiscordRpc EXCEPT !.phase = "panicked",
                            !.connect = IF now < 0 THEN "none" ELSE "err"]
  ELSE [NoDiscordRpc EXCEPT !.phase = "built", !.connect = "ok",
                            !.client = "Some", !.start_time = now]

\* DiscordRpc::new: the unwrap of duration_since panics before the epoch;
\* then connect() decides between Some(client) and None, the failure being
\* written to stderr
DiscordRpcNew(now, connected) ==
  IF now < 0
  THEN [NoDiscordRpc EXCEPT !.phase = "panicked"]
  ELSE IF connected
  THEN [NoDiscordRpc EXCEPT !.phase = "built", !.connect = "ok",
                            !.client = "Some", !.start_time = now]
  ELSE [NoDiscordRpc EXCEPT !.phase = "built", !.connect = "err",
                            !.client = "None", !.start_time = now,
                            !.stderr = 1]

\* update_status with a failed set_activity dropping the client
update_statusDropsClient(rpc, details, state, set_ok) ==
  IF rpc.client = "Some"
  THEN IF set_ok
       THEN [rpc EXCEPT !.activity = <<details, state, rpc.start_time>>]
       ELSE [rpc EXCEPT !.client = "None"]
  ELSE rpc

\* DiscordRpc::update_status: with a client, the activity is sent, and a
\* failure of set_activity is written to stderr; without one, nothing
update_status(rpc, details, state, set_ok) ==
  IF rpc.client = "Some"
  THEN IF set_ok
       THEN [rpc EXCEPT !.activity = <<details, state, rpc.start_time>>]
       ELSE [rpc EXCEPT !.set_failed = @ + 1, !.stderr = @ + 1]
  ELSE rpc

GameUntouched ==
  UNCHANGED <<scene, combat_data, player_health, player_pos_x, keys_pressed,
              keys_down, before, sessions, turns>>

\* the program constructs its DiscordRpc
NewDiscordRpc ==
  \E now \in Clocks, connected \in BOOLEAN :
    /\ discord_rpc.phase = "unbuilt"
    /\ discord_rpc' = DiscordRpcNew(now, connected)
    /\ GameUntouched

\* one call of update_status, which returns ()
UpdateStatus ==
  \E details \in DetailsPool, state \in StatePool, set_ok \in BOOLEAN :
    /\ discord_rpc.phase = "built"
    /\ discord_rpc.calls < MaxCalls
    /\ discord_rpc' = [update_status(discord_rpc, details, state, set_ok)
                         EXCEPT !.calls = @ + 1, !.returned = @ + 1]
    /\ GameUntouched

NextDiscord ==
  \/ NewDiscordRpc
  \/ UpdateStatus

SpecDiscord == Init /\ [][NextDiscord]_vars

(***************************************************************************)
(* Fair version: the host calls update once per frame, so an update that   *)
(* can run does run.                                                       *)
(***************************************************************************)
SpecBarFair == SpecBar /\ WF_vars(BarFighting)

\* an enemy turn is running: the update of SansTurn is enabled exactly here,
\* and each of its steps raises the timer by one
InSansTurn == scene = "Combat" /\ combat_data.turn = "SansTurn"
SansTick == InSansTurn /\ combat_data'.timer = combat_data.timer + 1

\* weak fairness of the update of SansTurn, written out: WF_vars(A) is
\* []<>~ENABLED <<A>>_vars \/ []<><<A>>_vars, with InSansTurn for the enabling
\* condition and SansTick for the step
SpecHeartFair == SpecHeart /\ ([]<>~InSansTurn \/ []<><<SansTick>>_vars)

(***************************************************************************)
(* The claims.  `before` holds the state the last step found, so           *)
(* "an update in turn T" reads: the last step was a combat update and      *)
(* found turn = T.                                                         *)
(***************************************************************************)
\* the last step was a combat update that found the turn t
Updated(t) ==
  before.handler = "update" /\ before.scene = "Combat" /\ before.combat_data.turn = t

\* a confirm key of Menu, Acting and Mercy was pressed to the last update
PressedZEF == "Z" \in keys_pressed \/ "Enter" \in keys_pressed \/ "F" \in keys_pressed
\* a confirm key of Fighting was pressed to the last update
PressedZE == "Z" \in keys_pressed \/ "Enter" \in keys_pressed

\* C1: menu_selection is within [0,3] in every state, whatever was pressed;
\* an update in Menu with Left pressed at selection 0 leaves the cursor where
\* the other keys alone would put it (0, or 1 with Right), one with Right
\* pressed at selection 3 leaves it at 3, and with no confirm pressed neither
\* changes anything else than the decaying shake.
C1_MenuSelectionClamped ==
  /\ combat_data.menu_selection \in 0..3
  /\ (Updated("Menu") /\ before.combat_data.menu_selection = 0 /\ "Left" \in keys_pressed)
       => combat_data.menu_selection = (IF "Right" \in keys_pressed THEN 1 ELSE 0)
  /\ (Updated("Menu") /\ before.combat_data.menu_selection = 3 /\ "Right" \in keys_pressed)
       => combat_data.menu_selection = 3
  /\ (/\ Updated("Menu")
      /\ \/ before.combat_data.menu_selection = 0 /\ keys_pressed = {"Left"}
         \/ before.combat_data.menu_selection = 3 /\ keys_pressed = {"Right"})
       => (/\ [combat_data EXCEPT !.sans_shake = 0]
              = [before.combat_data EXCEPT !.sans_shake = 0]
           /\ player_health = before.player_health
           /\ scene = "Combat")

\* Right pressed with the cursor on the last entry, after an enemy turn
C1_Witness ==
  /\ Updated("Menu") /\ before.combat_data.menu_selection = 3
  /\ keys_pressed = {"Right"} /\ combat_data.menu_selection = 3

\* the last update was a confirm press that stopped the active attack bar
BarStopped ==
  /\ Updated("Fighting") /\ before.combat_data.attack_bar_active /\ PressedZE
  /\ before.combat_data.attack_bar_pos + BarSpeed <= 750

\* the damage the claims give for a bar stopped at pos
ClaimedDamage(pos) ==
  LET d == IF pos >= 400 THEN pos - 400 ELSE 400 - pos
  IN  IF d < 20 THEN 100 ELSE IF d < 100 THEN 100 - d ELSE 0

\* C2: when a confirm stops the active bar, the bar stands at the advanced
\* position and action_text is "MISS" if the damage for that position (100 if
\* d < 20, 100 - d if 20 <= d < 100, 0 if d >= 100, d = |pos - 400|) is 0 and
\* "<damage> DMG" otherwise; the damage is within [0,100].
C2_DamageOfStoppedBar ==
  BarStopped =>
    LET damage == ClaimedDamage(combat_data.attack_bar_pos)
    IN  /\ combat_data.attack_bar_pos = before.combat_data.attack_bar_pos + 8
        /\ ~combat_data.attack_bar_active
        /\ damage \in 0..100
        /\ (damage = 0) => (combat_data.action_text = "MISS")
        /\ (damage > 0) => (combat_data.action_text = ToString(damage) \o " DMG")
        /\ (combat_data.action_text = "MISS") = (damage = 0)

\* a bar stopped in the band of linear falloff
C2_Witness ==
  /\ BarStopped
  /\ combat_data.attack_bar_pos = 378 /\ combat_data.action_text = "78 DMG"

\* C3: an update that finds the bar active and advances it beyond 750
\* deactivates it with action_text "MISS", whatever is pressed; an active bar
\* is never beyond 750; and an active bar is eventually inactive.
C3_AutoMiss ==
  /\ [](/\ (/\ Updated("Fighting") /\ before.combat_data.attack_bar_active
            /\ before.combat_data.attack_bar_pos + 8 > 750)
             => (~combat_data.attack_bar_active /\ combat_data.action_text = "MISS")
        /\ combat_data.attack_bar_active
             => (combat_data.turn = "Fighting" /\ combat_data.attack_bar_pos \in 50..750))
  /\ (combat_data.attack_bar_active ~> ~combat_data.attack_bar_active)

\* the bar ran from 50 to beyond 750 with no key pressed on the last update
C3_Witness ==
  /\ Updated("Fighting") /\ before.combat_data.attack_bar_active
  /\ before.combat_data.attack_bar_pos = 746 /\ keys_pressed = {}
  /\ combat_data.attack_bar_pos = 754 /\ combat_data.action_text = "MISS"

\* C4: an update in Menu that finds selection 0 and gets a confirm press and
\* no direction key ends in Fighting with the attack bar active at 50, timer 0
\* and an empty action_text.
C4_ConfirmFight ==
  (/\ Updated("Menu") /\ before.combat_data.menu_selection = 0 /\ PressedZEF
   /\ "Left" \notin keys_pressed /\ "Right" \notin keys_pressed)
    => (/\ combat_data.turn = "Fighting"
        /\ combat_data.attack_bar_active
        /\ combat_data.attack_bar_pos = 50
        /\ combat_data.timer = 0
        /\ combat_data.action_text = "")

\* Fight confirmed in a Menu that an enemy turn left with its timer and a
\* result text
C4_Witness ==
  /\ Updated("Menu") /\ before.combat_data.menu_selection = 0 /\ PressedZEF
  /\ "Left" \notin keys_pressed /\ "Right" \notin keys_pressed
  /\ before.combat_data.timer > 0 /\ before.combat_data.action_text # ""
  /\ combat_data.turn = "Fighting"

\* C5 as stated: after the update in which a confirm stopped the bar with
\* positive damage, sans_shake is 10.0.
C5_ShakeIsTenAfterHit ==
  (BarStopped /\ ClaimedDamage(combat_data.attack_bar_pos) > 0)
    => combat_data.sans_shake = 100

\* C5, amended: after the update in which a confirm stopped the bar with
\* positive damage, sans_shake is 9.5: the hit sets it to 10.0 and the decay
\* that ends the same update takes 0.5 off.
C5_ShakeAfterHit ==
  (BarStopped /\ ClaimedDamage(combat_data.attack_bar_pos) > 0)
    => combat_data.sans_shake = 95

\* a bar stopped next to the centre, for the full damage
C5_Witness ==
  /\ BarStopped
  /\ combat_data.attack_bar_pos = 402 /\ combat_data.action_text = "100 DMG"

C7_EnemyTurnEntryResets ==
  (Updated("SansTurn") /\ before.combat_data.timer = 0) =>
    LET jump == "Up" \in keys_pressed /\ before.combat_data.can_jump
        fall == "Down" \in keys_down /\ (jump \/ ~before.combat_data.can_jump)
        vy   == (IF jump THEN -130 ELSE 9) + (IF fall THEN 15 ELSE 0)
        dx   == (IF "Right" \in keys_down THEN 40 ELSE 0)
                - (IF "Left" \in keys_down THEN 40 ELSE 0)
    IN  /\ combat_data.bones = <<>>
        /\ combat_data.heart_velocity = <<0, vy>>
        /\ combat_data.heart_pos = <<4000 + dx, 3950 + vy>>
        /\ combat_data.timer = 1

\* the first update of a second enemy turn, entered from Fighting, with the
\* heart still on the floor where the turn before left it
C7_Witness ==
  /\ Updated("SansTurn") /\ before.combat_data.timer = 0
  /\ before.combat_data.menu_selection = 0
  /\ before.combat_data.heart_pos = <<4000, 4400>>
  /\ turns = 2

\* C8: in every state the heart is within the arena rectangle and not below
\* the floor line: 55 <= x <= 735 and 325 <= y <= 440.
C8_HeartInArena ==
  /\ combat_data.heart_pos[1] >= 550 /\ combat_data.heart_pos[1] <= 7350
  /\ combat_data.heart_pos[2] >= 3250 /\ combat_data.heart_pos[2] <= 4400

\* the heart held against the left wall by the clamp, on the floor
C8_Witness ==
  /\ Updated("SansTurn") /\ "Left" \in keys_down
  /\ before.combat_data.heart_pos = <<550, 4400>>
  /\ combat_data.heart_pos = <<550, 4400>>

\* the heart held under the top of the arena by the clamp
C8_WitnessTop ==
  /\ Updated("SansTurn")
  /\ before.combat_data.heart_pos[2] + combat_data.heart_velocity[2] < 3250
  /\ combat_data.heart_pos[2] = 3250

\* a bone, as the enemy turn moved it, is within [-50,850]
C9_Kept(b) == b.pos[1] + b.velocity[1] >= -500 /\ b.pos[1] + b.velocity[1] <= 8500

\* the bones the last update of an enemy turn added to those it found
C9_Added ==
  LET old  == before.combat_data.bones
      kept == Cardinality({i \in 1..Len(old) : C9_Kept(old[i])})
  IN  SubSeq(combat_data.bones, kept + 1, Len(combat_data.bones))

\* C9: in every state every bone has x within [-50,850]; an update of an
\* enemy turn that does not end the turn keeps exactly the bones it found
\* whose moved x is within [-50,850], in their order and moved by their
\* velocity, and on an update with a wave due the whole wave (two bones, or
\* the one bone of a one-sided blue pattern) is added behind them, each bone
\* one move from its spawn x of 800 or -50.
C9_BonesLeaveAtTheEdge ==
  /\ \A i \in 1..Len(combat_data.bones) :
       combat_data.bones[i].pos[1] >= -500 /\ combat_data.bones[i].pos[1] <= 8500
  /\ (Updated("SansTurn") /\ combat_data.turn = "SansTurn" /\ before.combat_data.timer > 0)
       => LET old   == before.combat_data.bones
              keep  == {i \in 1..Len(old) : C9_Kept(old[i])}
              kept  == Cardinality(keep)
          IN  /\ Len(combat_data.bones) >= kept
              /\ \A i \in keep :
                   LET k == Cardinality({j \in keep : j <= i})
                   IN  combat_data.bones[k] =
                         [old[i] EXCEPT !.pos = <<old[i].pos[1] + old[i].velocity[1],
                                                  old[i].pos[2]>>]
              /\ (combat_data.timer % 40 # 0) => C9_Added = <<>>
              /\ (combat_data.timer % 40 = 0) =>
                   /\ Len(C9_Added) \in {1, 2}
                   /\ ~combat_data.is_blue_mode => Len(C9_Added) = 2
                   /\ (combat_data.is_blue_mode /\ Len(C9_Added) = 1)
                        => C9_Added[1].pos[2] \in {4200, 3500}
                   /\ \A j \in 1..Len(C9_Added) :
                        C9_Added[j].pos[1] - C9_Added[j].velocity[1] \in {8000, -500}

\* the update removed a bone that ran out on the right, and kept another
C9_Witness ==
  /\ Updated("SansTurn") /\ combat_data.turn = "SansTurn"
  /\ \E i \in 1..Len(before.combat_data.bones) :
       before.combat_data.bones[i].pos[1] + before.combat_data.bones[i].velocity[1] > 8500
  /\ Len(combat_data.bones) > 0
  /\ Len(combat_data.bones) < Len(before.combat_data.bones)

\* C10: an update of an enemy turn goes back to Menu exactly if it raises the
\* timer beyond 400, whatever the keys and the health, and then the bones are
\* cleared, is_blue_mode is false and dialogue_text is the closing line;
\* otherwise the turn stays SansTurn with the timer one higher; during an
\* enemy turn the timer is at most 400; and every enemy turn is eventually
\* back in Menu.
C10_EnemyTurnEnds ==
  /\ [](/\ Updated("SansTurn") =>
            IF before.combat_data.timer + 1 > 400
            THEN /\ combat_data.turn = "Menu"
                 /\ combat_data.timer = 401
                 /\ combat_data.bones = <<>>
                 /\ combat_data.is_blue_mode = FALSE
                 /\ combat_data.dialogue_text = "You feel your sins crawling on your back."
            ELSE /\ combat_data.turn = "SansTurn"
                 /\ combat_data.timer = before.combat_data.timer + 1
        /\ (scene = "Combat" /\ combat_data.turn = "SansTurn") =>
             combat_data.timer \in 0..400)
  /\ ((scene = "Combat" /\ combat_data.turn = "SansTurn")
        ~> (scene = "Combat" /\ combat_data.turn = "Menu"))

\* a blue turn that cost health ends with bones in flight and a key held
C10_Witness ==
  /\ Updated("SansTurn") /\ before.combat_data.timer = 400
  /\ before.combat_data.bones # <<>> /\ before.combat_data.is_blue_mode
  /\ player_health < 100 /\ keys_down # {}
  /\ combat_data.turn = "Menu"

\* the bones the last update found that, moved by their velocity, overlap the
\* 10x10 box of the heart where the update left it
C11_Overlapping ==
  {i \in 1..Len(before.combat_data.bones) :
     LET b  == before.combat_data.bones[i]
         bx == b.pos[1] + b.velocity[1]
         by == b.pos[2] + b.velocity[2]
         hx == combat_data.heart_pos[1]
         hy == combat_data.heart_pos[2]
     IN  /\ hx < bx + b.size[1] /\ bx < hx + 100
         /\ hy < by + b.size[2] /\ by < hy + 100}

\* C11 as stated: an update of an enemy turn takes exactly 1 off player_health
\* if at least one moved bone overlaps the heart, however many do, and
\* nothing otherwise.
C11_OneOffPerHitFrame ==
  Updated("SansTurn") =>
    player_health = (IF C11_Overlapping # {} THEN before.player_health - 1
                     ELSE before.player_health)

\* C11, amended: an update of an enemy turn takes exactly 1 off player_health
\* if at least one moved bone overlaps the heart and player_health is at
\* least 1, however many bones overlap; it leaves player_health as it is if
\* no bone overlaps, and at 0 if it is 0.
C11_OneOffPerHitFrameAboveZero ==
  Updated("SansTurn") =>
    player_health = (IF C11_Overlapping # {} /\ before.player_health >= 1
                     THEN before.player_health - 1
                     ELSE before.player_health)

\* the two bones of one wave cross over the heart: one point lost
C11_Witness ==
  /\ Updated("SansTurn") /\ Cardinality(C11_Overlapping) >= 2
  /\ before.player_health >= 2
  /\ player_health = before.player_health - 1

\* the last update was a confirm press in Menu with the cursor, after
\* navigation, on Item
ItemUsed == Updated("Menu") /\ PressedZEF /\ combat_data.menu_selection = 2

\* C12: player_health, 100 when the game starts, is within [0,100] in every
\* state; an update of an enemy turn that finds it at 0 and a bone over the
\* heart leaves it at exactly 0; an Item heal that finds it above 60 leaves
\* it at exactly 100.
C12_HealthInRange ==
  /\ player_health \in 0..100
  /\ (Updated("SansTurn") /\ C11_Overlapping # {} /\ before.player_health - 1 < 0)
       => player_health = 0
  /\ (ItemUsed /\ before.player_health + 40 > 100) => player_health = 100

\* a bone over the heart of a player at 0
C12_Witness ==
  /\ Updated("SansTurn") /\ C11_Overlapping # {}
  /\ before.player_health = 0 /\ player_health = 0

\* an Item heal cut off at 100
C12_WitnessHeal ==
  /\ ItemUsed /\ before.player_health \in 61..99 /\ player_health = 100

\* C13: a step that finds scene = Combat and leaves another scene is an
\* update in Mercy with a confirm press, and the scene it leaves is Desktop;
\* an Escape or Enter event handled in Combat changes nothing of the game
\* state; an update of an enemy turn that leaves player_health at 0 stays in
\* Combat and moves the turn as any other: on to the next frame of the
\* enemy turn, or back to Menu after the 401st.
C13_OnlyMercyLeavesCombat ==
  /\ (before.scene = "Combat" /\ scene # "Combat")
       => (Updated("Mercy") /\ PressedZEF /\ scene = "Desktop")
  /\ (before.handler = "event" /\ before.scene = "Combat")
       => (/\ scene = "Combat"
           /\ combat_data = before.combat_data
           /\ player_health = before.player_health
           /\ player_pos_x = before.player_pos_x)
  /\ (Updated("SansTurn") /\ player_health = 0)
       => (/\ scene = "Combat"
           /\ combat_data.timer = before.combat_data.timer + 1
           /\ combat_data.turn = (IF before.combat_data.timer < 400 THEN "SansTurn"
                                  ELSE "Menu"))

\* an enemy turn that ended with player_health at 0 is back in Menu, in combat
C13_Witness ==
  /\ Updated("SansTurn") /\ before.player_health = 0 /\ player_health = 0
  /\ before.combat_data.timer = 400
  /\ scene = "Combat" /\ combat_data.turn = "Menu"

\* an event handled during an enemy turn
C13_WitnessEvent ==
  /\ before.handler = "event" /\ before.scene = "Combat"
  /\ before.combat_data.turn = "SansTurn" /\ scene = "Combat"

\* C14 as stated: no combat update leaves player_health higher than it found
\* it.
C14_HealthNeverRises ==
  (before.handler = "update" /\ before.scene = "Combat")
    => player_health <= before.player_health

\* C14, amended: a combat update leaves player_health higher than it found it
\* only if it is the confirm of Item in Menu, which adds 40 up to the limit
\* of 100; every other combat update leaves it as it was or lower.
C14_HealthRisesOnlyByItem ==
  (before.handler = "update" /\ before.scene = "Combat")
    => IF ItemUsed
       THEN /\ player_health >= before.player_health
            /\ player_health = (IF before.player_health + 40 < 100
                                THEN before.player_health + 40 ELSE 100)
       ELSE player_health <= before.player_health

\* the Item raised the health of a hurt player by the full 40
C14_Witness ==
  /\ ItemUsed /\ before.player_health <= 60
  /\ player_health = before.player_health + 40

TurnChanged(from, to) ==
  /\ Updated(from) /\ combat_data.turn = to /\ from # to

\* C16 as stated: every update that changes the turn leaves timer at 0.
C16_TimerZeroOnTurnChange ==
  (before.handler = "update" /\ before.scene = "Combat"
   /\ combat_data.turn # before.combat_data.turn)
    => combat_data.timer = 0

\* C16, amended: the updates that move the turn Menu->Fighting,
\* Fighting->SansTurn and Acting->SansTurn leave timer at 0; those that move
\* it Menu->Acting and Menu->Mercy leave timer as they found it; the one that
\* moves it SansTurn->Menu leaves timer at 401.
C16_TimerOnTurnChange ==
  /\ (TurnChanged("Menu", "Fighting") \/ TurnChanged("Fighting", "SansTurn")
      \/ TurnChanged("Acting", "SansTurn"))
       => combat_data.timer = 0
  /\ (TurnChanged("Menu", "Acting") \/ TurnChanged("Menu", "Mercy"))
       => combat_data.timer = before.combat_data.timer
  /\ TurnChanged("SansTurn", "Menu") => combat_data.timer = 401

\* Mercy chosen in the menu after an enemy turn: the timer of that turn stays
C16_Witness ==
  /\ TurnChanged("Menu", "Mercy")
  /\ before.combat_data.timer = 401 /\ combat_data.timer = 401

\* C17: an update in Fighting that finds the bar active leaves the turn
\* Fighting, whether it stops the bar on a confirm press, runs it out or
\* moves it on; one that finds the bar inactive and gets no confirm press
\* changes nothing but the decaying shake; one that finds the bar inactive
\* and gets a confirm press moves the turn to SansTurn with timer 0.
C17_SecondConfirmEntersEnemyTurn ==
  /\ (Updated("Fighting") /\ before.combat_data.attack_bar_active)
       => combat_data.turn = "Fighting"
  /\ (Updated("Fighting") /\ ~before.combat_data.attack_bar_active /\ ~PressedZE)
       => [combat_data EXCEPT !.sans_shake = 0]
            = [before.combat_data EXCEPT !.sans_shake = 0]
  /\ (Updated("Fighting") /\ ~before.combat_data.attack_bar_active /\ PressedZE)
       => (/\ combat_data.turn = "SansTurn"
           /\ combat_data.timer = 0
           /\ ~combat_data.attack_bar_active)

\* the confirm press after a bar stopped for damage passes the turn to Sans
C17_Witness ==
  /\ TurnChanged("Fighting", "SansTurn")
  /\ combat_data.attack_bar_pos = 378 /\ combat_data.action_text = "78 DMG"

\* the confirm press after a bar that ran out passes the turn to Sans
C17_WitnessMiss ==
  /\ TurnChanged("Fighting", "SansTurn")
  /\ combat_data.attack_bar_pos = 754 /\ combat_data.action_text = "MISS"

\* the edges of the turn the claims allow
C18_Edges ==
  { <<"Menu", "Fighting">>, <<"Menu", "Acting">>, <<"Menu", "Mercy">>,
    <<"Fighting", "SansTurn">>, <<"Acting", "SansTurn">>, <<"SansTurn", "Menu">> }

\* C18: a step that leaves combat_data.turn different from the turn it found
\* is a combat update along one of the edges Menu->Fighting, Menu->Acting,
\* Menu->Mercy, Fighting->SansTurn, Acting->SansTurn, SansTurn->Menu, or the
\* frame that completes the fade into combat and installs fresh combat data
\* (turn Menu); so no update moves the turn out of Mercy, or from Fighting,
\* Acting or Mercy to Menu.
C18_TurnEdges ==
  (combat_data.turn # before.combat_data.turn) =>
    \/ /\ before.handler = "update" /\ before.scene = "Combat"
       /\ <<before.combat_data.turn, combat_data.turn>> \in C18_Edges
    \/ /\ before.handler = "update" /\ before.scene = "CombatTransition"
       /\ scene = "Combat" /\ combat_data.turn = "Menu" /\ combat_data.timer = 0

\* Fight chosen on the second lap: Menu, a turn, the enemy turn, Menu again
C18_Witness ==
  /\ TurnChanged("Menu", "Fighting")
  /\ before.combat_data.timer = 401 /\ turns >= 1

\* C19: in every state in which the turn is not SansTurn the list of bones
\* is empty; bones are in the list only in combat, during an enemy turn.
C19_BonesOnlyInEnemyTurn ==
  /\ combat_data.turn # "SansTurn" => combat_data.bones = <<>>
  /\ combat_data.bones # <<>> => (scene = "Combat" /\ combat_data.turn = "SansTurn")

\* the end of the second enemy turn clears the bones in flight
C19_Witness ==
  /\ TurnChanged("SansTurn", "Menu") /\ turns = 2
  /\ Len(before.combat_data.bones) >= 2 /\ combat_data.bones = <<>>

\* a bone of one of the three blue patterns: its y, height and speed
C20_BlueBone(b) ==
  <<b.pos[2], b.size[2], b.velocity[1]>>
    \in { <<4200, 500, -60>>, <<3500, 600, 60>>, <<4400, 300, -50>>, <<4400, 300, 50>> }

\* a bone of the red pattern: the part above the gap, from the top of the
\* arena, or the part below it, down to the bottom (no gap drawn here starts
\* at 380, where the lower part would equal a blue bone)
C20_RedBone(b) ==
  /\ b.velocity[1] = -50
  /\ \/ b.pos[2] = 3200
     \/ b.pos[2] + b.size[2] = 4700 /\ b.pos[2] # 4400

\* C20 as stated: no update of an enemy turn after its first changes
\* is_blue_mode.
C20_ModeNeverChangesAfterEntry ==
  (Updated("SansTurn") /\ before.combat_data.timer > 0)
    => combat_data.is_blue_mode = before.combat_data.is_blue_mode

\* C20, amended: an update of an enemy turn after its first that leaves the
\* turn SansTurn leaves is_blue_mode as it found it; the update that ends the
\* turn leaves it false; and during an enemy turn every bone in the list is
\* of the mode the turn has, so all its waves are of one mode.
C20_ModeFixedDuringEnemyTurn ==
  /\ (Updated("SansTurn") /\ before.combat_data.timer > 0
      /\ combat_data.turn = "SansTurn")
       => combat_data.is_blue_mode = before.combat_data.is_blue_mode
  /\ TurnChanged("SansTurn", "Menu") => ~combat_data.is_blue_mode
  /\ combat_data.turn = "SansTurn" =>
       \A i \in 1..Len(combat_data.bones) :
         IF combat_data.is_blue_mode THEN C20_BlueBone(combat_data.bones[i])
         ELSE C20_RedBone(combat_data.bones[i])

\* a blue enemy turn with bones of three waves in flight
C20_Witness ==
  /\ Updated("SansTurn") /\ combat_data.turn = "SansTurn"
  /\ combat_data.is_blue_mode /\ combat_data.timer = 120
  /\ Len(combat_data.bones) >= 3

\* C21: an update of an enemy turn that leaves the turn SansTurn adds bones
\* to the list exactly if the timer it leaves is one of 40, 80, ..., 400:
\* ten updates of the 401 that make a turn; the update that ends the turn
\* (timer 401) and the steps in every other turn leave no bones at all.
C21_WaveEveryFortyTicks ==
  /\ (Updated("SansTurn") /\ combat_data.turn = "SansTurn")
       => ((C9_Added # <<>>) = (combat_data.timer \in {40 * k : k \in 1..10}))
  /\ (Updated("SansTurn") /\ combat_data.turn # "SansTurn")
       => (combat_data.timer = 401 /\ combat_data.bones = <<>>)
  /\ (~Updated("SansTurn")) => combat_data.bones = <<>>

\* the tenth and last wave of a turn
C21_Witness ==
  /\ Updated("SansTurn") /\ combat_data.turn = "SansTurn"
  /\ combat_data.timer = 400 /\ C9_Added # <<>>

\* the last update of an enemy turn spawned a wave, in blue or in red mode
WaveSpawned(blue) ==
  /\ Updated("SansTurn") /\ combat_data.turn = "SansTurn"
  /\ combat_data.timer % 40 = 0 /\ combat_data.is_blue_mode = blue

\* C22: a wave in red mode adds exactly two bones, both spawned at x = 800
\* (one move of -5 on, at 795), 20 wide, with velocity (-5,0): the first from
\* y = 320 down to a gap_y within [330,440), the second from gap_y + 60 down
\* to 470; the two heights and the gap of 60 sum to 150.  (For a gap_y above
\* 410 the second bone starts below 470 and its height, 410 - gap_y, is
\* negative.)
C22_RedWave ==
  WaveSpawned(FALSE) =>
    /\ Len(C9_Added) = 2
    /\ LET top    == C9_Added[1]
           bottom == C9_Added[2]
           gap_y  == top.pos[2] + top.size[2]
       IN  /\ top.pos = <<8000 - 50, 3200>> /\ top.velocity = <<-50, 0>>
           /\ bottom.pos[1] = 8000 - 50 /\ bottom.velocity = <<-50, 0>>
           /\ top.size[1] = 200 /\ bottom.size[1] = 200
           /\ gap_y >= 3300 /\ gap_y < 4400
           /\ bottom.pos[2] = gap_y + 600
           /\ bottom.pos[2] + bottom.size[2] = 4700
           /\ top.size[2] + 600 + bottom.size[2] = 1500

\* a red wave with the gap at the upper end of its range
C22_Witness ==
  /\ WaveSpawned(FALSE) /\ Len(C9_Added) = 2
  /\ C9_Added[1].size[2] = 100 /\ C9_Added[2].pos[2] = 3900

\* a red wave with the gap at the lower end of its range: the second bone
\* starts at 499.9 and has the height -29.9
C22_WitnessLow ==
  /\ WaveSpawned(FALSE) /\ Len(C9_Added) = 2
  /\ C9_Added[2].pos[2] = 4999 /\ C9_Added[2].size[2] = -299

\* a bone spawned at (x, y) with size 20 x h and velocity (vx, 0), one move on
C23_Spawned(x, y, h, vx) ==
  [pos |-> <<x + vx, y>>, size |-> <<200, h>>, velocity |-> <<vx, 0>>]

\* C23: a wave in blue mode adds exactly one of: (a) one bone from (800,420),
\* 20x50, velocity (-6,0); (b) one bone from (-50,350), 20x60, velocity
\* (6,0); (c) two bones from (800,440) and (-50,440), 20x30, velocities
\* (-5,0) and (5,0).  Every bone in the list, in either mode, has vertical
\* velocity 0.
C23_BlueWave ==
  /\ WaveSpawned(TRUE) =>
       C9_Added \in { << C23_Spawned(8000, 4200, 500, -60) >>,
                      << C23_Spawned(-500, 3500, 600, 60) >>,
                      << C23_Spawned(8000, 4400, 300, -50),
                         C23_Spawned(-500, 4400, 300, 50) >> }
  /\ \A i \in 1..Len(combat_data.bones) : combat_data.bones[i].velocity[2] = 0

\* the third wave of a blue turn, with bones of all three patterns in flight
C23_Witness ==
  /\ WaveSpawned(TRUE) /\ combat_data.timer = 120
  /\ \A y \in {4200, 3500, 4400} :
       \E i \in 1..Len(combat_data.bones) : combat_data.bones[i].pos[2] = y

\* C24: a step that finds another scene and leaves scene = Combat is the
\* frame that completes the fade of CombatTransition, and it leaves
\* combat_data as CombatData::new() makes it: turn Menu, menu_selection 0,
\* timer 0, attack bar inactive, no bones, the opening dialogue, no result
\* text, no shake, the heart at (400,400) at rest; whatever the session
\* before left.
C24_FreshCombatData ==
  (scene = "Combat" /\ before.scene # "Combat") =>
    /\ before.handler = "update" /\ before.scene = "CombatTransition"
    /\ combat_data.turn = "Menu"
    /\ combat_data.menu_selection = 0
    /\ combat_data.timer = 0
    /\ ~combat_data.attack_bar_active
    /\ combat_data.attack_bar_pos = 0
    /\ combat_data.bones = <<>>
    /\ combat_data.dialogue_text = "You feel like you're gonna have a bad time."
    /\ combat_data.action_text = ""
    /\ combat_data.sans_shake = 0
    /\ combat_data.heart_pos = <<4000, 4000>>
    /\ combat_data.heart_velocity = <<0, 0>>
    /\ combat_data.is_blue_mode = FALSE
    /\ combat_data.can_jump = TRUE

\* combat entered again after a session left in Mercy behind an enemy turn
C24_Witness ==
  /\ scene = "Combat" /\ before.scene = "CombatTransition"
  /\ before.combat_data.turn = "Mercy" /\ before.combat_data.timer = 401
  /\ before.combat_data.menu_selection = 3
  /\ combat_data.turn = "Menu" /\ combat_data.timer = 0

\* C25: sans_shake is never negative and never above 10; every combat
\* update, in whatever turn, takes 0.5 off the value the state logic left if
\* that value is positive (10 after a hit with positive damage, the old value
\* otherwise) and leaves 0 alone.  So the update of the hit leaves 9.5, each
\* later update without a hit 0.5 less, and the twentieth update leaves
\* exactly 0: the value after the n-th update is 10 - n/2.
C25_ShakeDecays ==
  /\ combat_data.sans_shake \in { 100 - 5 * n : n \in 1..20 }
  /\ (before.handler = "update" /\ before.scene = "Combat") =>
       combat_data.sans_shake =
         IF BarStopped /\ ClaimedDamage(combat_data.attack_bar_pos) > 0
           THEN 95
           ELSE IF before.combat_data.sans_shake > 0
                  THEN before.combat_data.sans_shake - 5
                  ELSE 0
  \* counted on the enemy turn's own timer: the hit is at least two updates
  \* before tick 1, so the shake is over by tick 18
  /\ (combat_data.turn = "SansTurn" /\ combat_data.timer >= 18) =>
       combat_data.sans_shake = 0

\* the twentieth update after a hit: the bar was stopped, the result was
\* confirmed on the next update, and the enemy turn is at its 18th tick
C25_Witness ==
  /\ Updated("SansTurn") /\ combat_data.turn = "SansTurn"
  /\ combat_data.timer = 18
  /\ before.combat_data.sans_shake = 5 /\ combat_data.sans_shake = 0

\* an enemy-turn update started a jump: it found can_jump set, Up was
\* pressed, and it left can_jump clear with the jump velocity (-13, or -11.5
\* when Down is held, since the fast fall acts on the same update)
C26_JumpStarted ==
  /\ Updated("SansTurn") /\ "Up" \in keys_pressed
  /\ before.combat_data.can_jump /\ ~combat_data.can_jump
  /\ combat_data.heart_velocity[2] \in {-130, -115}

\* the height the physics of an update starts from: 395 on the update that
\* enters the turn (the entry reset comes first), else where the heart was
C26_StartY ==
  IF before.combat_data.timer = 0 THEN 3950 ELSE before.combat_data.heart_pos[2]

\* C26: a jump is started only by an update that starts with the heart
\* resting on the floor line y = 440; none is started in the air on the
\* first updates of an enemy turn after the reset to (400,395).
C26_JumpOnlyFromFloor ==
  C26_JumpStarted => C26_StartY = 4400

\* a jump started in the air: the second update of an enemy turn finds the
\* heart at y = 395.9, falling, with can_jump still set, and Up is pressed
C26_AirJump ==
  /\ C26_JumpStarted
  /\ before.combat_data.timer = 1
  /\ before.combat_data.heart_pos = <<4000, 3959>>
  /\ before.combat_data.heart_velocity = <<0, 9>>
  /\ combat_data.heart_velocity[2] = -130 /\ combat_data.heart_pos[2] = 3959 - 130

\* the heart rests on the floor: y = 440, no vertical velocity, can_jump set
C27_Grounded(cd) ==
  cd.heart_pos[2] = 4400 /\ cd.heart_velocity[2] = 0 /\ cd.can_jump

\* C27 as stated: every enemy-turn update that finds the heart resting on
\* the floor and no jump pressed leaves it resting on the floor.
C27_GroundedStaysAlways ==
  (Updated("SansTurn") /\ C27_Grounded(before.combat_data) /\ "Up" \notin keys_pressed)
    => C27_Grounded(combat_data)

\* C27: an enemy-turn update other than the one that enters the turn
\* (timer = 0) that finds the heart resting on the floor and no jump pressed
\* leaves it resting on the floor, Down held or not; the update that enters
\* a turn finds the heart where the turn before left it, resets it to
\* (400,395) and leaves it falling at (400,395.9) with velocity 0.9.
C27_GroundedStays ==
  (Updated("SansTurn") /\ C27_Grounded(before.combat_data) /\ "Up" \notin keys_pressed)
    => IF before.combat_data.timer # 0
         THEN C27_Grounded(combat_data)
         ELSE /\ combat_data.heart_pos = <<4000, 3959>>
              /\ combat_data.heart_velocity = <<0, 9>>
              /\ combat_data.can_jump

\* the heart at rest on the floor with Down held through an update
C27_Witness ==
  /\ Updated("SansTurn") /\ before.combat_data.timer # 0
  /\ C27_Grounded(before.combat_data) /\ keys_pressed = {} /\ "Down" \in keys_down
  /\ C27_Grounded(combat_data)

\* the second enemy turn of a session lifts the resting heart off the floor
C27_WitnessEntry ==
  /\ Updated("SansTurn") /\ before.combat_data.timer = 0 /\ turns = 2
  /\ C27_Grounded(before.combat_data) /\ keys_pressed = {} /\ "Down" \in keys_down
  /\ combat_data.heart_pos[2] = 3959

\* the enemy turn the last update belongs to is in blue mode (the update
\* that enters the turn draws the mode, the update that ends it clears it)
C28_BlueTurn ==
  IF before.combat_data.timer = 0 THEN combat_data.is_blue_mode
                                  ELSE before.combat_data.is_blue_mode

\* C28: with jump never pressed and every blue wave the high bone from the
\* left (pattern 1), no update of a blue enemy turn takes health off,
\* whatever Left and Right do: the bone spans y 350..410, and the heart,
\* which is on the floor (y 440..450) before the first bone is spawned, is
\* below it.
C28_NoLossUnderHighBones ==
  (Updated("SansTurn") /\ C28_BlueTurn) =>
    /\ player_health = before.player_health
    /\ \A i \in 1..Len(combat_data.bones) :
         /\ combat_data.bones[i].pos[2] = 3500
         /\ combat_data.heart_pos[2] = 4400

\* a high bone passing right over the heart while Left is held: the two
\* overlap in x, and health is untouched
C28_Witness ==
  /\ Updated("SansTurn") /\ C28_BlueTurn /\ "Left" \in keys_down
  /\ \E i \in 1..Len(combat_data.bones) :
       /\ combat_data.bones[i].pos[1] < combat_data.heart_pos[1] + 100
       /\ combat_data.bones[i].pos[1] + 200 > combat_data.heart_pos[1]
  /\ combat_data.heart_pos[1] < 4000
  /\ player_health = 100 /\ before.player_health = 100

\* C29: a combat update changes player_health only in an enemy turn, where
\* it leaves it as it was or lower, and on the confirm of Item in Menu; every
\* update in Fighting, Acting or Mercy, and every update in Menu that is not
\* the confirm of Item, leaves it exactly as it found it.
C29_HealthFrame ==
  /\ Updated("SansTurn") => player_health <= before.player_health
  /\ \A t \in {"Fighting", "Acting", "Mercy"} :
       Updated(t) => player_health = before.player_health
  /\ (Updated("Menu") /\ ~ItemUsed) => player_health = before.player_health
  /\ (before.handler = "update" /\ before.scene = "Combat"
        /\ player_health # before.player_health)
       => (Updated("SansTurn") \/ ItemUsed)

\* a hurt player confirms Fight in the Menu: the health stays as it was
C29_Witness ==
  /\ Updated("Menu") /\ PressedZEF /\ combat_data.turn = "Fighting"
  /\ before.player_health < 100 /\ player_health = before.player_health

\* a hurt player leaves through Mercy with the health as it was
C29_WitnessMercy ==
  /\ Updated("Mercy") /\ PressedZEF /\ scene = "Desktop"
  /\ before.player_health < 100 /\ player_health = before.player_health

\* C30: a combat update that leaves menu_selection other than it found it
\* is an update in Menu with Left or Right pressed; updates in Fighting,
\* Acting, Mercy and the enemy turn leave it unchanged, the update that ends
\* the enemy turn and goes back to Menu included.
C30_SelectionFrame ==
  /\ \A t \in {"Fighting", "Acting", "Mercy", "SansTurn"} :
       Updated(t) => combat_data.menu_selection = before.combat_data.menu_selection
  /\ (before.handler = "update" /\ before.scene = "Combat"
        /\ combat_data.menu_selection # before.combat_data.menu_selection)
       => (Updated("Menu") /\ keys_pressed \cap {"Left", "Right"} # {})

\* back in Menu after an enemy turn that followed the Item: the cursor is
\* still on Item
C30_Witness ==
  /\ Updated("SansTurn") /\ before.combat_data.timer = 400
  /\ combat_data.turn = "Menu"
  /\ before.combat_data.menu_selection = 2 /\ combat_data.menu_selection = 2

\* the cursor after the presses of one Menu update: Left first (not below
\* 0), then Right (not above 3)
C31_Navigated ==
  LET l == IF "Left" \in keys_pressed /\ before.combat_data.menu_selection > 0
             THEN before.combat_data.menu_selection - 1
             ELSE before.combat_data.menu_selection
  IN  IF "Right" \in keys_pressed /\ l < 3 THEN l + 1 ELSE l

\* C31: a Menu update applies Left, then Right, to the cursor, and a confirm
\* pressed in the same update acts on the cursor after that navigation:
\* 0 enters Fighting, 1 and 2 enter Acting, 3 enters Mercy.  Right plus
\* confirm at selection 0 enters Acting; without a confirm the turn stays
\* Menu.
C31_ConfirmAfterNavigation ==
  Updated("Menu") =>
    /\ combat_data.menu_selection = C31_Navigated
    /\ combat_data.turn =
         (IF ~PressedZEF THEN "Menu"
          ELSE CASE C31_Navigated = 0 -> "Fighting"
                 [] C31_Navigated \in {1, 2} -> "Acting"
                 [] OTHER -> "Mercy")

\* Right plus confirm with the cursor on Fight enters Acting
C31_Witness ==
  /\ Updated("Menu") /\ before.combat_data.menu_selection = 0
  /\ "Right" \in keys_pressed /\ "Left" \notin keys_pressed /\ PressedZEF
  /\ combat_data.menu_selection = 1 /\ combat_data.turn = "Acting"

\* Left, Right and confirm together with the cursor on Mercy stay on Mercy
C31_WitnessBoth ==
  /\ Updated("Menu") /\ before.combat_data.menu_selection = 3
  /\ {"Left", "Right"} \subseteq keys_pressed /\ PressedZEF
  /\ combat_data.menu_selection = 3 /\ combat_data.turn = "Mercy"

\* C32: on the update that takes the active attack bar beyond 750 with Z or
\* Enter pressed, the auto-miss is what happens: the bar stands inactive at
\* the advanced position, action_text is "MISS", timer is 0, sans_shake is
\* not set (it only decays), the turn is still Fighting and the dialogue is
\* the one from before.
C32_AutoMissBeforeConfirm ==
  (/\ Updated("Fighting") /\ before.combat_data.attack_bar_active
   /\ before.combat_data.attack_bar_pos + 8 > 750 /\ PressedZE)
    => /\ combat_data.turn = "Fighting"
       /\ ~combat_data.attack_bar_active
       /\ combat_data.attack_bar_pos = before.combat_data.attack_bar_pos + 8
       /\ combat_data.action_text = "MISS"
       /\ combat_data.timer = 0
       /\ combat_data.sans_shake =
            (IF before.combat_data.sans_shake > 0
               THEN before.combat_data.sans_shake - 5 ELSE 0)
       /\ combat_data.sans_shake < 95
       /\ combat_data.dialogue_text = before.combat_data.dialogue_text

\* Z pressed on the update that takes the bar from 746 to 754
C32_Witness ==
  /\ Updated("Fighting") /\ before.combat_data.attack_bar_active
  /\ before.combat_data.attack_bar_pos = 746 /\ "Z" \in keys_pressed
  /\ combat_data.attack_bar_pos = 754 /\ combat_data.action_text = "MISS"
  /\ combat_data.turn = "Fighting"

\* C33: F pressed alone in Fighting does nothing: an active bar moves on (or
\* misses beyond 750) as with no key, and the result screen stays, the turn
\* being Fighting in any case; F pressed alone confirms in Menu (the turn
\* leaves Menu), in Acting (the enemy turn starts) and in Mercy (the scene
\* becomes Desktop).
C33_FConfirmsNotInFighting ==
  /\ (Updated("Fighting") /\ keys_pressed = {"F"}) =>
       /\ combat_data.turn = "Fighting"
       /\ combat_data.attack_bar_active =
            (before.combat_data.attack_bar_active
               /\ before.combat_data.attack_bar_pos + 8 <= 750)
       /\ combat_data.attack_bar_active =>
            combat_data.action_text = before.combat_data.action_text
       /\ ~before.combat_data.attack_bar_active =>
            [combat_data EXCEPT !.sans_shake = 0]
              = [before.combat_data EXCEPT !.sans_shake = 0]
  /\ (Updated("Menu") /\ keys_pressed = {"F"}) => combat_data.turn # "Menu"
  /\ (Updated("Acting") /\ keys_pressed = {"F"}) => combat_data.turn = "SansTurn"
  /\ (Updated("Mercy") /\ keys_pressed = {"F"}) => scene = "Desktop"

\* F pressed while the bar runs over the centre: the bar runs on
C33_Witness ==
  /\ Updated("Fighting") /\ keys_pressed = {"F"}
  /\ before.combat_data.attack_bar_pos = 394 /\ combat_data.attack_bar_pos = 402
  /\ combat_data.attack_bar_active /\ combat_data.action_text = ""

\* F pressed on the result screen: the turn stays Fighting
C33_WitnessResult ==
  /\ Updated("Fighting") /\ keys_pressed = {"F"}
  /\ ~before.combat_data.attack_bar_active
  /\ combat_data.turn = "Fighting" /\ combat_data.action_text = "100 DMG"

\* F pressed in Acting starts the enemy turn
C33_WitnessActing ==
  /\ Updated("Acting") /\ keys_pressed = {"F"} /\ combat_data.turn = "SansTurn"

\* C34: in every state attack_bar_active implies turn = Fighting and
\* attack_bar_pos within [50,750]; an update that finds turn = Fighting and
\* leaves another turn found the bar inactive and leaves it inactive.
C34_ActiveBarOnlyInFighting ==
  /\ combat_data.attack_bar_active =>
       /\ combat_data.turn = "Fighting"
       /\ combat_data.attack_bar_pos >= 50 /\ combat_data.attack_bar_pos <= 750
  /\ (Updated("Fighting") /\ combat_data.turn # "Fighting") =>
       /\ ~before.combat_data.attack_bar_active
       /\ ~combat_data.attack_bar_active
       /\ combat_data.turn = "SansTurn"

\* the bar active on its last position within the box, and the next update
\* is the auto-miss
C34_Witness ==
  /\ Updated("Fighting") /\ combat_data.turn = "Fighting"
  /\ combat_data.attack_bar_active /\ combat_data.attack_bar_pos = 746

\* the turn leaves Fighting from the result screen of an auto-miss
C34_WitnessLeave ==
  /\ Updated("Fighting") /\ combat_data.turn = "SansTurn"
  /\ ~before.combat_data.attack_bar_active
  /\ before.combat_data.attack_bar_pos = 754

\* C35: in every state the bone list holds at most 10 bones, in blue and in
\* red mode and for every pattern drawn: a wave of two bones every 40
\* updates, and a bone that moves 5 a frame is removed within 181 updates,
\* so the bones of at most five waves are in the list.
C35_AtMostTenBones ==
  Len(combat_data.bones) <= 10

\* ten bones at once in blue mode: five waves of pattern 2, the oldest pair
\* still within the bounds
C35_Witness ==
  /\ Updated("SansTurn") /\ combat_data.turn = "SansTurn"
  /\ combat_data.is_blue_mode /\ Len(combat_data.bones) = 10
  /\ Len(before.combat_data.bones) = 8

\* ten bones at once in red mode
C35_WitnessRed ==
  /\ Updated("SansTurn") /\ combat_data.turn = "SansTurn"
  /\ ~combat_data.is_blue_mode /\ Len(combat_data.bones) = 10

\* C36: every bone in the list has a width and a height above 0, for every
\* pattern of blue mode and every gap_y red mode can draw from [330,440).
C36_PositiveSizes ==
  \A i \in 1..Len(combat_data.bones) :
    combat_data.bones[i].size[1] > 0 /\ combat_data.bones[i].size[2] > 0

\* a red wave drawn with gap_y = 439.9: its lower bone starts at y = 499.9,
\* below the box that ends at 470, and has the height 470 - 499.9 = -29.9
C36_NegativeHeight ==
  /\ WaveSpawned(FALSE) /\ Len(combat_data.bones) >= 2
  /\ LET b == combat_data.bones[Len(combat_data.bones)]
     IN  b.pos[2] = 4399 + 600 /\ b.size = <<200, -299>> /\ b.pos[2] > 4700

\* C37: a DiscordRpc::new whose connect() failed has returned an object
\* with no client (the failure written to stderr); every update_status call
\* has returned; on an object without a client the calls sent nothing and
\* wrote nothing; on an object with a client every failed set_activity
\* wrote one line to stderr and left the client and the last activity sent
\* in place.
C37_DiscordFailuresAreSilent ==
  /\ discord_rpc.connect = "err" =>
       (discord_rpc.phase = "built" /\ discord_rpc.client = "None")
  /\ discord_rpc.connect = "ok" =>
       (discord_rpc.phase = "built" /\ discord_rpc.client = "Some")
  /\ discord_rpc.returned = discord_rpc.calls
  /\ (discord_rpc.phase = "built" /\ discord_rpc.client = "None") =>
       /\ discord_rpc.connect = "err"
       /\ discord_rpc.activity = <<>>
       /\ discord_rpc.stderr = 1
       /\ discord_rpc.set_failed = 0
  /\ discord_rpc.client = "Some" =>
       /\ discord_rpc.stderr = discord_rpc.set_failed
       /\ discord_rpc.set_failed <= discord_rpc.calls
       /\ (discord_rpc.set_failed = discord_rpc.calls) = (discord_rpc.activity = <<>>)

\* update_status called more than once on an object whose connection failed
C37_Witness ==
  /\ discord_rpc.connect = "err" /\ discord_rpc.client = "None"
  /\ discord_rpc.calls >= 2 /\ discord_rpc.returned = discord_rpc.calls
  /\ discord_rpc.activity = <<>>

\* a set_activity that failed after one that went through
C37_WitnessSetFailed ==
  /\ discord_rpc.client = "Some" /\ discord_rpc.set_failed >= 1
  /\ discord_rpc.activity # <<>> /\ discord_rpc.returned = discord_rpc.calls

====
